---- MODULE Spec2Model ----
(***************************************************************************)
(* Fortuna PRNG (src/Fortuna.cpp): EntropyAccumulator, SeedManager,        *)
(* Generator and the Fortuna orchestrator, as a state machine.             *)
(*                                                                         *)
(* Byte strings whose content is decided by a primitive are terms:         *)
(*   - a blob [kind, data, depth] is the byte string obtained by applying  *)
(*     SHA-256 `depth` times to a root; the root is either the outcome     *)
(*     number data[1] of a RAND_bytes(32) draw (kind "rand") or the        *)
(*     literal bytes `data` (kind "raw").  SHA-256 is thus collision free  *)
(*     and has no cycles: the idealisation every claim about keys uses.    *)
(*   - an output byte [k, i, x] is byte i of the AES-256-CTR keystream of  *)
(*     key k (zero IV, first block) xor the plaintext byte x.              *)
(* The counter of the source is 64 bits wide and dataLimit is 2^20; both   *)
(* are scaled by CounterBits and LimitBlocks, keeping                      *)
(* dataLimit / 16 <= 2^CounterBits as in the source.                       *)
(***************************************************************************)
EXTENDS Integers, Sequences, FiniteSets, Bags, TLC

\* ------------------------------------------------------------- bounds
\* width of Generator::counter in the model (64 in the source)
CounterBits == 3
\* blocks per key in the model: dataLimit / 16 (65536 in the source)
LimitBlocks == 4
\* generateBlock calls explored under SpecGen
MaxBlocks == 10
\* calls explored after construction under Spec
MaxOps == 3
\* getRandomBytes requests go up to MaxReqBlocks * 16 + 1 bytes
MaxReqBlocks == 2
\* generateBlock calls explored under SpecReseeds
MaxKeyBlocks == 6
\* generateBlock calls each thread makes under SpecThreads
MaxThreadCalls == 2

\* -------------------------------------------------- program constants
POOL_COUNT == 32
BlockLen == 16
\* bytes of a generator key, of a fresh seed and of a SHA-256 digest
KeyLen == 32

CounterMod == 2 ^ CounterBits
dataLimit == LimitBlocks * BlockLen

\* ------------------------------------------------------------- values
NoBlob == [kind |-> "none", data |-> <<>>, depth |-> 0]
Rand(r) == [kind |-> "rand", data |-> <<r>>, depth |-> 0]
Raw(bytes) == [kind |-> "raw", data |-> bytes, depth |-> 0]
PlainByte(v) == [k |-> NoBlob, i |-> 0, x |-> v]

\* main's sample entropy buffer
testEntropy == <<1, 2, 3, 4>>

DataChoices == {<<7>>, testEntropy}
\* source ids: pool 0 (the default), pool 1 by wrapping, and a negative one
Sources == {-1, 0, 33}
Requests == UNION {{BlockLen * b, BlockLen * b + 1} : b \in 0..MaxReqBlocks}
\* the outcomes of a RAND_bytes(32) draw that are told apart
RandOutcomes == {1, 2}
KeyChoices == {Rand(r) : r \in RandOutcomes}
\* byte strings that are not KeyLen long: 2 bytes and 33 bytes
WrongKeys == {Raw(<<1, 2>>), Raw([i \in 1..(KeyLen + 1) |-> 9])}

\* the size() of a blob: a RAND_bytes(32) draw and a digest are KeyLen long
Length(b) == IF b.kind = "raw" /\ b.depth = 0 THEN Len(b.data) ELSE KeyLen

\* C++ remainder: truncates toward zero, so it is negative for a negative a
CRem(a, b) == IF a >= 0 THEN a % b ELSE -((-a) % b)

\* --------------------------------------------------------- primitives
sha256(b) == [b EXCEPT !.depth = @ + 1]

encryptCounter(k, counterBlock) ==
  [i \in 1..Len(counterBlock) |-> [k |-> k, i |-> i, x |-> counterBlock[i]]]

RECURSIVE Shr8(_, _)
Shr8(v, n) == IF n = 0 THEN v ELSE Shr8(v \div 256, n - 1)

\* a faulty counter block: the counter stored in host (little-endian) order
CounterBlockLittleEndian(c) ==
  [i \in 1..BlockLen |-> IF i <= 8 THEN 0 ELSE Shr8(c, i - 9) % 256]

\* 16 zero bytes, then htobe64(counter) stored at offset 8
CounterBlock(c) ==
  [i \in 1..BlockLen |-> IF i <= 8 THEN 0 ELSE Shr8(c, BlockLen - i) % 256]

\* ------------------------------------------------- EntropyAccumulator
EmptyPools == [i \in 0..(POOL_COUNT - 1) |-> <<>>]

poolIndex(source) == CRem(source, POOL_COUNT)

addEntropy(p, data, source) ==
  [p EXCEPT ![poolIndex(source)] = @ \o data]

clearPools(p) == [i \in DOMAIN p |-> <<>>]

RECURSIVE combineFrom(_, _)
combineFrom(p, i) ==
  IF i >= POOL_COUNT THEN <<>> ELSE p[i] \o combineFrom(p, i + 1)

\* a faulty getReseedEntropy: the pools are not cleared
getReseedEntropyNoClear(p) ==
  [seed |-> sha256(Raw(combineFrom(p, 0))), pools |-> p]

\* a faulty getReseedEntropy: only the first pool is hashed
getReseedEntropyFirstPool(p) ==
  [seed |-> sha256(Raw(p[0])), pools |-> clearPools(p)]

getReseedEntropy(p) ==
  [seed |-> sha256(Raw(combineFrom(p, 0))), pools |-> clearPools(p)]

\* -------------------------------------------------------- SeedManager
\* the file is <<>> when seed.dat does not exist, <<blob>> when it does;
\* writable: whether std::ofstream could open it (a failed stream ignores
\* the write and nothing reports it)
saveSeed(file, seed, writable) == IF writable THEN <<seed>> ELSE file

\* readable: whether std::ifstream could open an existing file
loadSeed(file, readable, fresh, writable) ==
  IF file # <<>> /\ readable
  THEN [seed |-> file[1], file |-> file]
  ELSE [seed |-> fresh, file |-> saveSeed(file, fresh, writable)]

\* ---------------------------------------------------------- Generator
\* a faulty rekey: dataGenerated is reset but the key is kept
rekeyKeepsKey(g) == [g EXCEPT !.dataGenerated = 0]

\* a faulty rekey: the key is replaced but dataGenerated is not reset
rekeyKeepsCount(g) == [g EXCEPT !.key = sha256(g.key)]

\* a faulty rekey: the counter restarts with the new key
rekeyResetsCounter(g) ==
  [g EXCEPT !.key = sha256(g.key), !.dataGenerated = 0, !.counter = 0]

rekey(g) == [g EXCEPT !.key = sha256(g.key), !.dataGenerated = 0]

\* a faulty generateBlock: the rekey fires only once the limit is exceeded
generateBlockStrict(g) ==
  LET block == encryptCounter(g.key, CounterBlock(g.counter))
      g1 == [g EXCEPT !.counter = (@ + 1) % CounterMod,
                      !.dataGenerated = @ + Len(block)]
      over == g1.dataGenerated > dataLimit
  IN [gen |-> IF over THEN rekey(g1) ELSE g1, block |-> block, rekeyed |-> over]

generateBlock(g) ==
  LET block == encryptCounter(g.key, CounterBlock(g.counter))
      g1 == [g EXCEPT !.counter = (@ + 1) % CounterMod,
                      !.dataGenerated = @ + Len(block)]
      over == g1.dataGenerated >= dataLimit
  IN [gen |-> IF over THEN rekey(g1) ELSE g1, block |-> block, rekeyed |-> over]

\* a faulty setKey: it restarts the counter
setKeyResetsCounter(g, newKey) == [g EXCEPT !.key = newKey, !.counter = 0]

\* a faulty setKey: the new key starts a new dataLimit budget
setKeyResetsData(g, newKey) == [g EXCEPT !.key = newKey, !.dataGenerated = 0]

setKey(g, newKey) == [g EXCEPT !.key = newKey]

\* ------------------------------------------------------------ Fortuna
resize(s, n) ==
  IF Len(s) >= n THEN SubSeq(s, 1, n)
  ELSE s \o [i \in 1..(n - Len(s)) |-> PlainByte(0)]

RECURSIVE getRandomBytesLoop(_, _, _, _)
getRandomBytesLoop(g, result, numBytes, ncalls) ==
  IF Len(result) < numBytes
  THEN LET r == generateBlock(g)
       IN getRandomBytesLoop(r.gen, result \o r.block, numBytes, ncalls + 1)
  ELSE [gen |-> g, result |-> result, ncalls |-> ncalls]

\* a faulty getRandomBytes: the result is not trimmed to the requested size
getRandomBytesNoResize(g, numBytes) ==
  LET l == getRandomBytesLoop(g, <<>>, numBytes, 0)
  IN [gen |-> l.gen, result |-> l.result, ncalls |-> l.ncalls]

getRandomBytes(g, numBytes) ==
  LET l == getRandomBytesLoop(g, <<>>, numBytes, 0)
  IN [gen |-> l.gen, result |-> resize(l.result, numBytes), ncalls |-> l.ncalls]

\* -------------------------------------------------------------- state
VARIABLES
  phase,          \* "init": members constructed, Fortuna() not yet run;
                  \* "ready"; "crashed": the process was killed
  key,            \* Generator::key
  counter,        \* Generator::counter
  dataGenerated,  \* Generator::dataGenerated
  pools,          \* EntropyAccumulator::pools
  seedFile,       \* the content of seed.dat
  stray,          \* memory outside pools has been written through pools[i]
  \* history of the run, read by the properties only
  op,             \* the last call and its arguments
  ret,            \* what the last call returned
  pre,            \* the state the last call started in
  calls,          \* the generateBlock calls the last call made
  encLog,         \* the (key, counter) pairs encrypted since the last setKey
  adds,           \* the addEntropy calls since the last getReseedEntropy
  blocks,         \* generateBlock calls since construction
  produced,       \* bytes produced since the last rekey (or construction)
  nops,           \* calls made since construction under Spec
  used,           \* the bag of the keys of all blocks made since construction
  thr             \* the threads inside generateBlock under SpecThreads

vars == <<phase, key, counter, dataGenerated, pools, seedFile, stray,
          op, ret, pre, calls, encLog, adds, blocks, produced, nops,
          used, thr>>

Gen == [key |-> key, counter |-> counter, dataGenerated |-> dataGenerated]

Snapshot ==
  [key |-> key, counter |-> counter, dataGenerated |-> dataGenerated,
   pools |-> pools, seedFile |-> seedFile, produced |-> produced,
   blocks |-> blocks, encLog |-> encLog, adds |-> adds,
   stray |-> stray]

Call(name, n, data, source, k) ==
  [name |-> name, n |-> n, data |-> data, source |-> source, key |-> k]

NoRet == [bytes |-> <<>>, seed |-> <<>>]

\* the records of k successive generateBlock calls from g; prod is the
\* number of bytes produced since the last rekey before the first of them
RECURSIVE callRecords(_, _, _)
callRecords(g, k, prod) ==
  IF k = 0 THEN <<>>
  ELSE LET r == generateBlock(g)
           p == prod + Len(r.block)
       IN <<[key |-> g.key, counter |-> g.counter,
             dataGenerated |-> g.dataGenerated, produced |-> p,
             rekeyed |-> r.rekeyed, block |-> r.block, after |-> r.gen]>>
          \o callRecords(r.gen, k - 1, IF r.rekeyed THEN 0 ELSE p)

SetGen(g) ==
  /\ key' = g.key
  /\ counter' = g.counter
  /\ dataGenerated' = g.dataGenerated

\* the bag b with the keys of the calls recs added
RECURSIVE KeysUsed(_, _)
KeysUsed(b, recs) ==
  IF recs = <<>> THEN b
  ELSE KeysUsed(b (+) SetToBag({Head(recs).key}), Tail(recs))

\* no thread is inside generateBlock
Threads == {1, 2}
NoThreads ==
  [at |-> [t \in Threads |-> [pc |-> "idle", c |-> 0, tmp |-> 0, block |-> <<>>, done |-> 0]],
   overlap |-> FALSE]

\* history after the generator made the calls recs
Generated(recs) ==
  /\ calls' = recs
  /\ encLog' = encLog \o [i \in 1..Len(recs) |-> <<recs[i].key, recs[i].counter>>]
  /\ blocks' = blocks + Len(recs)
  /\ produced' = IF recs = <<>> THEN produced
                 ELSE IF recs[Len(recs)].rekeyed THEN 0
                 ELSE recs[Len(recs)].produced
  /\ used' = KeysUsed(used, recs)
  /\ UNCHANGED thr

NoBlocks ==
  /\ calls' = <<>>
  /\ UNCHANGED <<blocks, produced, used, thr>>

\* ---------------------------------------------------------------- Init
\* Generator() has drawn a random key; Fortuna() has not run yet; seed.dat
\* is absent or holds a seed an earlier run saved
InitFrom(seeds) ==
  /\ phase = "init"
  /\ key \in KeyChoices
  /\ counter = 0
  /\ dataGenerated = 0
  /\ pools = EmptyPools
  /\ seedFile \in {<<>>} \cup {<<k>> : k \in seeds}
  /\ stray = FALSE
  /\ op = Call("Generator", 0, <<>>, 0, NoBlob)
  /\ ret = NoRet
  /\ pre = [key |-> NoBlob, counter |-> 0, dataGenerated |-> 0,
            pools |-> EmptyPools, seedFile |-> <<>>, produced |-> 0,
            blocks |-> 0, encLog |-> <<>>, adds |-> <<>>, stray |-> FALSE]
  /\ calls = <<>>
  /\ encLog = <<>>
  /\ adds = <<>>
  /\ blocks = 0
  /\ produced = 0
  /\ nops = 0
  /\ used = EmptyBag
  /\ thr = NoThreads

Init == InitFrom(KeyChoices)

\* ------------------------------------------------------------- actions
\* Fortuna::Fortuna()
Construct ==
  /\ phase = "init"
  /\ \E readable \in BOOLEAN, r \in RandOutcomes, writable \in BOOLEAN :
       LET l == loadSeed(seedFile, readable, Rand(r), writable)
       IN /\ seedFile' = l.file
          /\ SetGen(setKey(Gen, l.seed))
          /\ op' = Call("Fortuna", 0, <<>>, 0, l.seed)
  /\ phase' = "ready"
  /\ ret' = NoRet
  /\ pre' = Snapshot
  /\ encLog' = <<>>
  /\ NoBlocks
  /\ UNCHANGED <<pools, stray, adds, nops>>

\* EntropyAccumulator::addEntropy(data, source)
AddEntropy ==
  /\ phase = "ready"
  /\ \E data \in DataChoices, source \in Sources :
       /\ IF poolIndex(source) \in DOMAIN pools
          THEN /\ pools' = addEntropy(pools, data, source)
               /\ UNCHANGED <<phase, stray>>
          ELSE \* pools[poolIndex] is outside the std::array: undefined
               \* behaviour.  The vector insert runs on whatever precedes
               \* the array: the process is killed, or the insert returns
               \* having written memory that is not a pool
               /\ pools' = pools
               /\ \/ phase' = "crashed" /\ stray' = stray
                  \/ phase' = phase /\ stray' = TRUE
       /\ op' = Call("addEntropy", 0, data, source, NoBlob)
       /\ adds' = Append(adds, [data |-> data, source |-> source])
  /\ ret' = NoRet
  /\ pre' = Snapshot
  /\ NoBlocks
  /\ UNCHANGED <<key, counter, dataGenerated, seedFile, encLog>>

\* Fortuna::reseed()
Reseed ==
  /\ phase = "ready"
  /\ \E writable \in BOOLEAN :
       LET e == getReseedEntropy(pools)
       IN /\ pools' = e.pools
          /\ SetGen(setKey(Gen, e.seed))
          /\ seedFile' = saveSeed(seedFile, e.seed, writable)
          /\ ret' = [bytes |-> <<>>, seed |-> <<e.seed>>]
  /\ op' = Call("reseed", 0, <<>>, 0, NoBlob)
  /\ pre' = Snapshot
  /\ encLog' = <<>>
  /\ adds' = <<>>
  /\ NoBlocks
  /\ UNCHANGED <<phase, stray>>

\* Fortuna::getRandomBytes(numBytes)
GetRandomBytes ==
  /\ phase = "ready"
  /\ \E numBytes \in Requests :
       LET r == getRandomBytes(Gen, numBytes)
       IN /\ SetGen(r.gen)
          /\ ret' = [bytes |-> r.result, seed |-> <<>>]
          /\ Generated(callRecords(Gen, r.ncalls, produced))
          /\ op' = Call("getRandomBytes", numBytes, <<>>, 0, NoBlob)
  /\ pre' = Snapshot
  /\ UNCHANGED <<phase, pools, seedFile, stray, adds>>

\* Generator::generateBlock()
GenerateBlock ==
  /\ phase = "ready"
  /\ LET r == generateBlock(Gen)
     IN /\ SetGen(r.gen)
        /\ ret' = [bytes |-> r.block, seed |-> <<>>]
  /\ Generated(callRecords(Gen, 1, produced))
  /\ op' = Call("generateBlock", 0, <<>>, 0, NoBlob)
  /\ pre' = Snapshot
  /\ UNCHANGED <<phase, pools, seedFile, stray, adds>>

\* Generator::setKey(newKey)
SetKeyFrom(keys) ==
  /\ phase = "ready"
  /\ \E newKey \in keys :
       /\ SetGen(setKey(Gen, newKey))
       /\ op' = Call("setKey", 0, <<>>, 0, newKey)
  /\ ret' = NoRet
  /\ pre' = Snapshot
  /\ encLog' = <<>>
  /\ NoBlocks
  /\ UNCHANGED <<phase, pools, seedFile, stray, adds>>

SetKey == SetKeyFrom(KeyChoices)

\* every call sequence of at most MaxOps calls on a Fortuna object
Budget == nops < MaxOps /\ nops' = nops + 1

Next ==
  \/ Construct
  \/ Budget /\ AddEntropy
  \/ Budget /\ Reseed
  \/ Budget /\ GetRandomBytes
  \/ Budget /\ GenerateBlock
  \/ Budget /\ SetKey

Spec == Init /\ [][Next]_vars

\* the generator alone, after a construction that loaded or created a seed:
\* every sequence of generateBlock, getRandomBytes and setKey calls that
\* makes at most MaxBlocks blocks
InitGen ==
  /\ phase = "ready"
  /\ key \in KeyChoices
  /\ counter = 0
  /\ dataGenerated = 0
  /\ pools = EmptyPools
  /\ seedFile = <<key>>
  /\ stray = FALSE
  /\ op = Call("Fortuna", 0, <<>>, 0, key)
  /\ ret = NoRet
  /\ pre = [key |-> NoBlob, counter |-> 0, dataGenerated |-> 0,
            pools |-> EmptyPools, seedFile |-> <<key>>, produced |-> 0,
            blocks |-> 0, encLog |-> <<>>, adds |-> <<>>, stray |-> FALSE]
  /\ calls = <<>>
  /\ encLog = <<>>
  /\ adds = <<>>
  /\ blocks = 0
  /\ produced = 0
  /\ nops = 0
  /\ used = EmptyBag
  /\ thr = NoThreads

GenBudget == blocks' <= MaxBlocks /\ nops' = nops

NextGen ==
  \/ GenerateBlock /\ GenBudget
  \/ GetRandomBytes /\ GenBudget
  \/ SetKey /\ GenBudget

SpecGen == InitGen /\ [][NextGen]_vars

\* the generator with reseeds: every sequence of generateBlock,
\* getRandomBytes, setKey and reseed calls that makes at most MaxKeyBlocks
\* blocks; the pools stay empty
KeyBudget == blocks' <= MaxKeyBlocks /\ nops' = nops

NextReseeds ==
  \/ GenerateBlock /\ KeyBudget
  \/ GetRandomBytes /\ KeyBudget
  \/ SetKey /\ KeyBudget
  \/ Reseed /\ KeyBudget

SpecReseeds == InitGen /\ [][NextReseeds]_vars

\* keys and stored seeds of any length: seed.dat may hold a blob that is not
\* KeyLen long, and setKey may be handed one.  Blocks are made only under a
\* key of KeyLen bytes: with a shorter one EVP_EncryptInit_ex reads past the
\* end of the vector, which is not explored here
InitKeys == InitFrom(KeyChoices \cup WrongKeys)

SetKeyAnyLength == SetKeyFrom(KeyChoices \cup WrongKeys)

GenerateBlockWholeKey == Length(key) = KeyLen /\ GenerateBlock

NextKeys ==
  \/ Construct
  \/ Budget /\ AddEntropy
  \/ Budget /\ Reseed
  \/ Budget /\ GenerateBlockWholeKey
  \/ Budget /\ SetKeyAnyLength

SpecKeys == InitKeys /\ [][NextKeys]_vars

\* two threads call generateBlock on one Generator with no lock.  A call is
\* the sequence of its reads and writes of the shared members, one step
\* each; the steps of the two calls interleave in any order.
\*   read   line 105  c = counter (into counterBlock)
\*   enc    line 107  block = encryptCounter(key, counterBlock)
\*   ldc    line 108  counter++, the load
\*   stc    line 108  counter++, the store
\*   ldd    line 109  dataGenerated += block.size(), the load
\*   std    line 109  dataGenerated += block.size(), the store
\*   chk    lines 111-115  if (dataGenerated >= dataLimit) rekey(); return
At(t) == thr.at[t]
Goto(t, pc, c, tmp, block) ==
  thr' = [thr EXCEPT !.at[t] = [@ EXCEPT !.pc = pc, !.c = c, !.tmp = tmp,
                                         !.block = block]]

\* a faulty increment: the counter is stored back as it was loaded
counterKept(c) == c

counterNext(c) == (c + 1) % CounterMod

Enter(t) ==
  /\ At(t).pc = "idle"
  /\ At(t).done < MaxThreadCalls
  /\ thr' = [thr EXCEPT !.at[t].pc = "read",
                        !.overlap = @ \/ \E u \in Threads \ {t} : At(u).pc # "idle"]
  /\ UNCHANGED <<key, counter, dataGenerated, encLog, blocks, used>>

ReadCounter(t) ==
  /\ At(t).pc = "read"
  /\ Goto(t, "enc", counter, 0, <<>>)
  /\ UNCHANGED <<key, counter, dataGenerated, encLog, blocks, used>>

Encrypt(t) ==
  /\ At(t).pc = "enc"
  /\ Goto(t, "ldc", At(t).c, 0, encryptCounter(key, CounterBlock(At(t).c)))
  /\ encLog' = Append(encLog, <<key, At(t).c>>)
  /\ blocks' = blocks + 1
  /\ used' = used (+) SetToBag({key})
  /\ UNCHANGED <<key, counter, dataGenerated>>

LoadCounter(t) ==
  /\ At(t).pc = "ldc"
  /\ Goto(t, "stc", At(t).c, counter, At(t).block)
  /\ UNCHANGED <<key, counter, dataGenerated, encLog, blocks, used>>

StoreCounter(t) ==
  /\ At(t).pc = "stc"
  /\ counter' = counterNext(At(t).tmp)
  /\ Goto(t, "ldd", At(t).c, 0, At(t).block)
  /\ UNCHANGED <<key, dataGenerated, encLog, blocks, used>>

LoadData(t) ==
  /\ At(t).pc = "ldd"
  /\ Goto(t, "std", At(t).c, dataGenerated, At(t).block)
  /\ UNCHANGED <<key, counter, dataGenerated, encLog, blocks, used>>

StoreData(t) ==
  /\ At(t).pc = "std"
  /\ dataGenerated' = At(t).tmp + Len(At(t).block)
  /\ Goto(t, "chk", At(t).c, 0, At(t).block)
  /\ UNCHANGED <<key, counter, encLog, blocks, used>>

CheckAndReturn(t) ==
  /\ At(t).pc = "chk"
  /\ IF dataGenerated >= dataLimit
     THEN SetGen(rekey(Gen))
     ELSE UNCHANGED <<key, counter, dataGenerated>>
  /\ thr' = [thr EXCEPT !.at[t].pc = "idle", !.at[t].done = @ + 1]
  /\ UNCHANGED <<encLog, blocks, used>>

\* the thread steps touch the generator and its history only
ThreadFrame ==
  UNCHANGED <<phase, pools, seedFile, stray, op, ret, pre, calls, adds,
              produced, nops>>

NextThreads ==
  \/ \E t \in Threads : Enter(t) /\ ThreadFrame
  \/ \E t \in Threads : ReadCounter(t) /\ ThreadFrame
  \/ \E t \in Threads : Encrypt(t) /\ ThreadFrame
  \/ \E t \in Threads : LoadCounter(t) /\ ThreadFrame
  \/ \E t \in Threads : StoreCounter(t) /\ ThreadFrame
  \/ \E t \in Threads : LoadData(t) /\ ThreadFrame
  \/ \E t \in Threads : StoreData(t) /\ ThreadFrame
  \/ \E t \in Threads : CheckAndReturn(t) /\ ThreadFrame

SpecThreads == InitGen /\ [][NextThreads]_vars

\* the library calls may fail.  sha256 drops what SHA256() returns and
\* encryptCounter drops what the EVP_ calls return; both return their output
\* vector, which is constructed full of zero bytes, so a call that failed
\* before writing gives zeros back
ZeroBytes(n) == [i \in 1..n |-> PlainByte(0)]
ZeroDigest == Raw([i \in 1..KeyLen |-> 0])

sha256Run(b, ok) == IF ok THEN sha256(b) ELSE ZeroDigest

encryptCounterRun(k, counterBlock, ok) ==
  IF ok THEN encryptCounter(k, counterBlock) ELSE ZeroBytes(Len(counterBlock))

generateBlockRun(g, cipherOk, digestOk) ==
  LET block == encryptCounterRun(g.key, CounterBlock(g.counter), cipherOk)
      g1 == [g EXCEPT !.counter = (@ + 1) % CounterMod,
                      !.dataGenerated = @ + Len(block)]
      over == g1.dataGenerated >= dataLimit
  IN [gen |-> IF over
              THEN [g1 EXCEPT !.key = sha256Run(g1.key, digestOk), !.dataGenerated = 0]
              ELSE g1,
      block |-> block, rekeyed |-> over]

getReseedEntropyRun(p, digestOk) ==
  [seed |-> sha256Run(Raw(combineFrom(p, 0)), digestOk), pools |-> clearPools(p)]

\* Generator::generateBlock() with library calls that may fail
GenerateBlockMayFail ==
  /\ phase = "ready"
  /\ \E cipherOk \in BOOLEAN, digestOk \in BOOLEAN :
       LET r == generateBlockRun(Gen, cipherOk, digestOk)
       IN /\ SetGen(r.gen)
          /\ ret' = [bytes |-> r.block, seed |-> <<>>]
          /\ Generated(<<[key |-> key, counter |-> counter,
                          dataGenerated |-> dataGenerated,
                          produced |-> produced + Len(r.block),
                          rekeyed |-> r.rekeyed, block |-> r.block,
                          after |-> r.gen]>>)
  /\ op' = Call("generateBlock", 0, <<>>, 0, NoBlob)
  /\ pre' = Snapshot
  /\ UNCHANGED <<phase, pools, seedFile, stray, adds>>

\* Fortuna::reseed() with a digest that may fail
ReseedMayFail ==
  /\ phase = "ready"
  /\ \E digestOk \in BOOLEAN, writable \in BOOLEAN :
       LET e == getReseedEntropyRun(pools, digestOk)
       IN /\ pools' = e.pools
          /\ SetGen(setKey(Gen, e.seed))
          /\ seedFile' = saveSeed(seedFile, e.seed, writable)
          /\ ret' = [bytes |-> <<>>, seed |-> <<e.seed>>]
  /\ op' = Call("reseed", 0, <<>>, 0, NoBlob)
  /\ pre' = Snapshot
  /\ encLog' = <<>>
  /\ adds' = <<>>
  /\ NoBlocks
  /\ UNCHANGED <<phase, stray>>

NextFail ==
  \/ Construct
  \/ Budget /\ AddEntropy
  \/ Budget /\ ReseedMayFail
  \/ Budget /\ GenerateBlockMayFail

SpecFail == Init /\ [][NextFail]_vars

\* ---------------------------------------------------------- properties
CeilBlocks(n) == (n + BlockLen - 1) \div BlockLen

\* C1: across the generateBlock calls made since the last setKey, rekeys
\* and the wrap of the counter included, no two blocks are encrypted under
\* the same (key, counter) pair.
C1_NoBlockReuse ==
  \A i, j \in 1..Len(encLog) : i < j => encLog[i] # encLog[j]

\* a counter value has come back after the wrap, under a later key
C1_Witness ==
  /\ Len(encLog) > CounterMod
  /\ \E i, j \in 1..Len(encLog) :
       /\ i < j
       /\ encLog[i][2] = encLog[j][2]
       /\ encLog[j][1].depth > encLog[i][1].depth

\* C2: the generateBlock call whose block brings the bytes produced since
\* the last rekey to dataLimit rekeys before it returns: the key of the next
\* block is sha256 of the key the block was made with, it differs from it,
\* and dataGenerated is 0 (so less than 16) right after that block.
C2_RekeyAtLimit ==
  \A i \in 1..Len(calls) :
    calls[i].produced >= dataLimit =>
      /\ calls[i].after.key = sha256(calls[i].key)
      /\ calls[i].after.key # calls[i].key
      /\ calls[i].after.dataGenerated = 0
      /\ calls[i].after.dataGenerated < BlockLen
      /\ IF i < Len(calls)
         THEN calls[i + 1].key = sha256(calls[i].key)
         ELSE key = sha256(calls[i].key) /\ dataGenerated = 0

\* a block has just crossed the limit
C2_Witness ==
  /\ op.name = "generateBlock"
  /\ calls[1].produced >= dataLimit
  /\ pre.produced = dataLimit - BlockLen

\* C3: between calls dataGenerated < dataLimit; a call changes it only
\* through its generateBlock calls, each of which adds 16 unless it rekeys,
\* and only a rekey sets it back (to 0).
C3_DataGeneratedBounded ==
  /\ dataGenerated < dataLimit
  /\ IF calls = <<>>
     THEN dataGenerated = pre.dataGenerated
     ELSE /\ calls[1].dataGenerated = pre.dataGenerated
          /\ calls[Len(calls)].after.dataGenerated = dataGenerated
          /\ \A i \in 1..Len(calls) :
               /\ i > 1 => calls[i].dataGenerated = calls[i - 1].after.dataGenerated
               /\ IF calls[i].rekeyed
                  THEN /\ calls[i].after.dataGenerated = 0
                       /\ calls[i].after.key # calls[i].key
                  ELSE /\ calls[i].after.dataGenerated = calls[i].dataGenerated + BlockLen
                       /\ calls[i].after.key = calls[i].key

\* a getRandomBytes call after a reseed rekeyed and went on counting
C3_Witness ==
  /\ op.name = "getRandomBytes"
  /\ pre.key.kind = "raw"
  /\ \E i \in 1..Len(calls) : calls[i].rekeyed /\ i < Len(calls)
  /\ dataGenerated > 0

\* C4: getRandomBytes(n) returns exactly n bytes; for n = 0 it returns the
\* empty sequence, calls generateBlock not at all and leaves key, counter
\* and dataGenerated as they were.
C4_ExactLength ==
  op.name = "getRandomBytes" =>
    /\ Len(ret.bytes) = op.n
    /\ op.n = 0 =>
         /\ ret.bytes = <<>>
         /\ calls = <<>>
         /\ key = pre.key
         /\ counter = pre.counter
         /\ dataGenerated = pre.dataGenerated

\* a request that is not a whole number of blocks was trimmed
C4_Witness ==
  /\ op.name = "getRandomBytes"
  /\ op.n % BlockLen # 0
  /\ Len(calls) * BlockLen > op.n
  /\ Len(ret.bytes) = op.n

\* C5: right after every reseed() the generator's key equals the seed in
\* storage, and both are the value getReseedEntropy() returned.
C5_KeyEqualsStoredSeed ==
  op.name = "reseed" =>
    /\ ret.seed = <<key>>
    /\ seedFile = <<key>>

\* the data the calls of log appended to pool i, in invocation order; a
\* call with a negative source selects no pool of 0..31
RECURSIVE PoolOf(_, _)
PoolOf(log, i) ==
  IF log = <<>> THEN <<>>
  ELSE (IF Head(log).source >= 0 /\ Head(log).source % POOL_COUNT = i
        THEN Head(log).data ELSE <<>>) \o PoolOf(Tail(log), i)

RECURSIVE PoolsInOrder(_, _)
PoolsInOrder(log, n) ==
  IF n = 0 THEN <<>> ELSE PoolsInOrder(log, n - 1) \o PoolOf(log, n - 1)

EmptyDigest == [kind |-> "raw", data |-> <<>>, depth |-> 1]

\* C6: after reseed() all 32 pools are empty, and a reseed with no
\* addEntropy since the previous reseed hashes 32 empty pools: what was
\* added before the previous reseed is not in its digest.
C6_ReseedClearsPools ==
  op.name = "reseed" =>
    /\ \A i \in 0..(POOL_COUNT - 1) : pools[i] = <<>>
    /\ pre.adds = <<>> => (ret.seed = <<EmptyDigest>> /\ key = EmptyDigest)

\* a second reseed right after one that consumed entropy
C6_Witness ==
  /\ op.name = "reseed"
  /\ pre.adds = <<>>
  /\ pre.key.kind = "raw" /\ pre.key.depth = 1 /\ pre.key.data # <<>>
  /\ pre.encLog = <<>>
  /\ key = EmptyDigest

\* C7: for every integer source, addEntropy(data, source) succeeds and
\* appends data to the pool of index source mod 32, leaving the other 31
\* pools as they were.
C7_AddEntropySelectsPool ==
  op.name = "addEntropy" =>
    /\ phase = "ready"
    /\ stray = pre.stray
    /\ pools = [pre.pools EXCEPT ![op.source % POOL_COUNT] = @ \o op.data]

\* C8: the seed getReseedEntropy() returns, and so the key after reseed(),
\* is sha256 of pool 0 ++ pool 1 ++ ... ++ pool 31, each pool holding the
\* data of its addEntropy calls since the previous reseed in invocation
\* order; after only testEntropy was added to pool 0 it is sha256 of those
\* four bytes.
C8_SeedIsDigestOfPools ==
  op.name = "reseed" =>
    /\ key = [kind |-> "raw", data |-> PoolsInOrder(pre.adds, POOL_COUNT), depth |-> 1]
    /\ ret.seed = <<key>>
    /\ pre.adds = <<[data |-> testEntropy, source |-> 0]>> =>
         key = [kind |-> "raw", data |-> <<1, 2, 3, 4>>, depth |-> 1]

\* pool 1 was filled before pool 0, with different data
C8_Witness ==
  /\ op.name = "reseed"
  /\ Len(pre.adds) = 2
  /\ pre.adds[1].source % POOL_COUNT = 1
  /\ pre.adds[2].source = 0
  /\ pre.adds[1].data # pre.adds[2].data
  /\ key.data = pre.adds[2].data \o pre.adds[1].data

RECURSIVE BigEndian(_, _)
BigEndian(v, n) ==
  IF n = 0 THEN <<>> ELSE BigEndian(v \div 256, n - 1) \o <<v % 256>>

\* encrypt(k, c) ++ encrypt(k, c + 1) ++ ... (m blocks), each counter block
\* 8 zero bytes followed by the 8-byte big-endian counter
RECURSIVE Keystream(_, _, _)
Keystream(k, c, m) ==
  IF m = 0 THEN <<>>
  ELSE encryptCounter(k, <<0, 0, 0, 0, 0, 0, 0, 0>> \o BigEndian(c, 8))
       \o Keystream(k, (c + 1) % CounterMod, m - 1)

\* C9: with key k and counter c, a getRandomBytes(n) that crosses no rekey
\* threshold returns the first n bytes of the ceil(n/16) blocks encrypt(k, c),
\* encrypt(k, c + 1), ... and advances the counter by ceil(n/16).
C9_OutputIsKeystream ==
  (/\ op.name = "getRandomBytes"
   /\ pre.dataGenerated + BlockLen * CeilBlocks(op.n) < dataLimit) =>
    /\ ret.bytes = SubSeq(Keystream(pre.key, pre.counter, CeilBlocks(op.n)), 1, op.n)
    /\ counter = (pre.counter + CeilBlocks(op.n)) % CounterMod
    /\ key = pre.key

\* construction, one reseed, then getRandomBytes(32): two whole blocks under
\* the reseeded key, counters 0 and 1
C9_Witness ==
  /\ op.name = "getRandomBytes"
  /\ op.n = 2 * BlockLen
  /\ pre.counter = 0
  /\ pre.key.kind = "raw"
  /\ ret.bytes = encryptCounter(pre.key, <<0, 0, 0, 0, 0, 0, 0, 0, 0, 0, 0, 0, 0, 0, 0, 0>>)
                 \o encryptCounter(pre.key, <<0, 0, 0, 0, 0, 0, 0, 0, 0, 0, 0, 0, 0, 0, 0, 1>>)
  /\ counter = 2

\* C10: setKey(newKey) installs newKey and leaves counter and dataGenerated
\* as they were; so does reseed().
C10_SetKeyKeepsCounters ==
  /\ op.name = "setKey" =>
       /\ key = op.key
       /\ counter = pre.counter
       /\ dataGenerated = pre.dataGenerated
  /\ op.name = "reseed" =>
       /\ counter = pre.counter
       /\ dataGenerated = pre.dataGenerated

\* a key was replaced in the middle of a key's block budget
C10_Witness ==
  /\ op.name = "setKey"
  /\ key # pre.key
  /\ counter > 0
  /\ dataGenerated > 0

\* C11: construction with no stored seed leaves the stored seed equal to the
\* key (a fresh value, saved before it is installed); construction with a
\* stored seed leaves the key equal to the stored bytes.
C11_ConstructionSeed ==
  op.name = "Fortuna" =>
    /\ pre.seedFile = <<>> => seedFile = <<key>>
    /\ pre.seedFile # <<>> => key = pre.seedFile[1]

\* C13: construction overwrites a stored seed with a fresh one only when
\* there was none; with a seed in storage, the seed stays as it was, and
\* either it becomes the key or construction fails.
C13_LoadFailureKeepsSeed ==
  (op.name = "Fortuna" /\ pre.seedFile # <<>>) =>
    /\ seedFile = pre.seedFile
    /\ key = pre.seedFile[1] \/ phase # "ready"

\* C12: the key is KeyLen bytes long in every state: a setKey with a key of
\* another length, and a construction over a stored blob of another length,
\* leave the key as it was.
C12_KeyLengthChecked ==
  /\ Length(key) = KeyLen
  /\ (op.name \in {"setKey", "Fortuna"} /\ Length(op.key) # KeyLen) => key = pre.key

\* C14: no call hands back the zero-filled buffer of a library call that
\* failed: a block returned by generateBlock is BlockLen bytes that are not
\* all zero, and neither the seed reseed() returns nor the key is the
\* all-zero digest.
C14_NoZeroOutput ==
  /\ op.name = "generateBlock" =>
       (Len(ret.bytes) = BlockLen /\ ret.bytes # ZeroBytes(BlockLen))
  /\ ret.seed # <<ZeroDigest>>
  /\ key # ZeroDigest

\* C16: the counter is the number of generateBlock calls since construction
\* modulo 2^CounterBits: each generateBlock call, rekeying or not, adds 1
\* modulo 2^CounterBits, and a call that makes no block (construction,
\* setKey, reseed, addEntropy) leaves the counter as it was.
C16_CounterCountsBlocks ==
  /\ counter = blocks % CounterMod
  /\ \A i \in 1..Len(calls) :
       calls[i].after.counter = (calls[i].counter + 1) % CounterMod
  /\ calls = <<>> => counter = pre.counter

\* the counter has wrapped to 0, two rekeys after construction
C16_Witness ==
  /\ blocks = CounterMod
  /\ counter = 0
  /\ key.depth = 2
  /\ \E i \in 1..Len(calls) :
       calls[i].counter = CounterMod - 1 /\ calls[i].after.counter = 0

\* C17 as stated: the rekey fires on exactly every LimitBlocks-th
\* generateBlock call since construction, whatever setKey and reseed calls
\* come between, and no key encrypts more than LimitBlocks blocks.
C17_KeyBlockLimit ==
  /\ \A i \in 1..Len(calls) :
       calls[i].rekeyed <=> (pre.blocks + i) % LimitBlocks = 0
  /\ \A k \in BagToSet(used) : CopiesIn(k, used) <= LimitBlocks

\* C17, amended: the rekey fires on exactly every LimitBlocks-th
\* generateBlock call since construction, whatever setKey and reseed calls
\* come between, and a key encrypts at most LimitBlocks blocks between the
\* call that installs it (construction, setKey, reseed or rekey) and the
\* next call that installs a key.
C17_RekeyEveryLimit ==
  /\ \A i \in 1..Len(calls) :
       calls[i].rekeyed <=> (pre.blocks + i) % LimitBlocks = 0
  /\ \A i \in 1..Len(encLog) :
       Cardinality({j \in 1..Len(encLog) : encLog[j][1] = encLog[i][1]}) <= LimitBlocks

\* a key installed by reseed() was replaced by its hash after fewer than
\* LimitBlocks blocks under it
C17_Witness ==
  /\ calls # <<>>
  /\ calls[1].key = EmptyDigest
  /\ key = sha256(EmptyDigest)
  /\ Len(encLog) > 0
  /\ Len(encLog) < LimitBlocks
  /\ blocks % LimitBlocks = 0

\* C18: the stored seed is written only by reseed() and by a construction
\* that found no stored seed: addEntropy, getRandomBytes, generateBlock and
\* setKey (with the rekeys they make), and a construction over a
\* stored seed, leave it as it was; after a call that rekeyed, the stored
\* seed is what it was before the call and is not the key.
C18_SeedWrittenOnlyByReseed ==
  /\ op.name \in {"addEntropy", "getRandomBytes", "generateBlock", "setKey"} =>
       seedFile = pre.seedFile
  /\ (op.name = "Fortuna" /\ pre.seedFile # <<>>) => seedFile = pre.seedFile
  /\ (\E i \in 1..Len(calls) : calls[i].rekeyed) =>
       (seedFile = pre.seedFile /\ seedFile # <<key>>)

\* the part of C18 about the calls other than construction
C18_FrameOfOtherCalls ==
  /\ op.name \in {"addEntropy", "getRandomBytes", "generateBlock", "setKey"} =>
       seedFile = pre.seedFile
  /\ (\E i \in 1..Len(calls) : calls[i].rekeyed) =>
       (seedFile = pre.seedFile /\ seedFile # <<key>>)

\* C19: after reseed() the key and the stored seed are the digest of what
\* the pools held, whatever the key and the stored seed were before (so two
\* objects with the same pools end with the same key and the same stored
\* seed); over empty pools that is the digest of the empty string.
C19_ReseedFromPoolsOnly ==
  op.name = "reseed" =>
    /\ key = sha256(Raw(combineFrom(pre.pools, 0)))
    /\ seedFile = <<sha256(Raw(combineFrom(pre.pools, 0)))>>
    /\ pre.pools = EmptyPools => key = EmptyDigest

\* the part of C19 about the key
C19_KeyFromPoolsOnly ==
  op.name = "reseed" =>
    /\ key = sha256(Raw(combineFrom(pre.pools, 0)))
    /\ pre.pools = EmptyPools => key = EmptyDigest

\* C20: generateBlock is not atomic.  Two blocks are encrypted under the same
\* (key, counter) pair only in a run in which a generateBlock call started
\* while another was in progress: calls that exclude each other reuse no
\* pair, and (C20_Witness) calls that overlap can.
C20_ReuseOnlyWhenOverlapping ==
  (\E i, j \in 1..Len(encLog) : i < j /\ encLog[i] = encLog[j]) => thr.overlap

\* both threads are inside generateBlock holding the block of the same
\* (key, counter) pair
C20_Witness ==
  /\ At(1).block # <<>>
  /\ At(1).block = At(2).block
  /\ At(1).pc # "idle"
  /\ At(2).pc # "idle"
  /\ \E i, j \in 1..Len(encLog) : i < j /\ encLog[i] = encLog[j]

====
